---- MODULE Spec2Model ----
(***************************************************************************)
(* MARS, the Core Wars virtual machine of corewars/mars.py.                *)
(*                                                                         *)
(* Python keeps Instruction objects by reference: the core is a list of    *)
(* references, a warrior's program is a list of references, and             *)
(* load_warrior and MOV store references, not copies.  The model keeps a   *)
(* heap of Instruction objects and lets core cells and programs hold       *)
(* object identities (indices into the heap).                              *)
(***************************************************************************)
EXTENDS Integers, Sequences, FiniteSets, TLC

VARIABLES
    core_size,      \* MARS.core_size
    max_cycles,     \* MARS.max_cycles
    max_processes,  \* MARS.max_processes
    max_length,     \* MARS.max_length
    heap,           \* the Instruction objects, by identity 1..Len(heap)
    core,           \* MARS.core: index 0..core_size-1 -> object identity
    warriors,       \* MARS.warriors: sequence of Warrior records
    cycle,          \* MARS.cycle
    winner,         \* MARS.winner: 0 for None, else the position in warriors
    frame,          \* the running load_warrior call without an address
    call,           \* the latest public call: what it saw, did and returned
    other           \* the tournament's MARS object that is not being called

vars == <<core_size, max_cycles, max_processes, max_length, heap, core,
          warriors, cycle, winner, frame, call, other>>

-----------------------------------------------------------------------------
(* Bounds of the model *)

CoreSize == 3
MaxCycles == 3
MaxProcs == 2
MaxWarriors == 2
MaxLength == 2
MaxValue == 3

-----------------------------------------------------------------------------
(* Instruction values *)

IMMEDIATE == "#"
DIRECT == "$"
INDIRECT == "@"
PREDECREMENT == "<"
POSTINCREMENT == ">"

AddressMode == {IMMEDIATE, DIRECT, INDIRECT, PREDECREMENT, POSTINCREMENT}

Opcode == {"DAT", "MOV", "ADD", "SUB", "MUL", "DIV", "MOD", "JMP", "JMZ",
           "JMN", "DJN", "CMP", "SEQ", "SNE", "SLT", "SPL", "NOP"}

Instruction(op, am, av, bm, bv) ==
    [opcode |-> op, a_mode |-> am, a_value |-> av, b_mode |-> bm, b_value |-> bv]

Sentinel == Instruction("DAT", IMMEDIATE, 0, IMMEDIATE, 0)

-----------------------------------------------------------------------------
(* Python arithmetic and list indexing *)

\* A quotient rounded towards zero, as C's / rounds: the slip C21 rules out.
FloorDiv_truncated(a, b) ==
    IF (a >= 0) = (b > 0)
    THEN (IF a >= 0 THEN a ELSE 0 - a) \div (IF b > 0 THEN b ELSE 0 - b)
    ELSE 0 - ((IF a >= 0 THEN a ELSE 0 - a) \div (IF b > 0 THEN b ELSE 0 - b))

\* a // b for b # 0: the floor of the quotient, whatever the signs.
FloorDiv(a, b) == IF b > 0 THEN a \div b ELSE (0 - a) \div (0 - b)

\* a % b for b # 0: the remainder has the sign of b.
PyMod(a, b) == a - b * FloorDiv(a, b)

\* self.core[i] and state[i]: Python accepts -core_size <= i < core_size and
\* raises IndexError outside.
IndexOK(i) == (0 - core_size) <= i /\ i < core_size

PyIdx(i) == IF i < 0 THEN i + core_size ELSE i

-----------------------------------------------------------------------------
(* Memory: m = [heap, core] threaded through the executor *)

Mem(h, c) == [heap |-> h, core |-> c]

Cell(m, i) == m.heap[m.core[PyIdx(i)]]

\* self.core[i].b_value = v : changes the object the cell refers to.
SetB(m, i, v) == [m EXCEPT !.heap[m.core[PyIdx(i)]].b_value = v]

\* self.core[i] = self.core[j] : the cell now refers to the same object.
SetRef(m, i, j) == [m EXCEPT !.core[PyIdx(i)] = m.core[PyIdx(j)]]

normalize(address) == address % core_size

CellRange == 0..(core_size - 1)

\* A pointer followed without normalising the sum: the slip C4 rules out.
pointer_target_raw(pointer_addr, offset) == pointer_addr + offset

\* Lines 112, 116 and 119: normalize(pointer_addr + pointer.b_value).
pointer_target(pointer_addr, offset) == normalize(pointer_addr + offset)

resolve_address(m, base, mode, value) ==
    LET pointer_addr == normalize(base + value)
        b == Cell(m, pointer_addr).b_value
    IN  CASE mode = IMMEDIATE -> [addr |-> base, m |-> m]
          [] mode = DIRECT -> [addr |-> pointer_addr, m |-> m]
          [] mode = INDIRECT ->
                [addr |-> pointer_target(pointer_addr, b), m |-> m]
          [] mode = PREDECREMENT ->
                [addr |-> pointer_target(pointer_addr, b - 1),
                 m |-> SetB(m, pointer_addr, b - 1)]
          [] mode = POSTINCREMENT ->
                [addr |-> pointer_target(pointer_addr, b),
                 m |-> SetB(m, pointer_addr, b + 1)]
          [] OTHER -> [addr |-> base, m |-> m]

-----------------------------------------------------------------------------
(* execute_instruction *)

\* Lines 133-141: an IMMEDIATE operand is the literal, any other operand is
\* the b_value of the resolved cell.
operand_value(m, mode, literal, addr) ==
    IF mode = IMMEDIATE THEN literal ELSE Cell(m, addr).b_value

\* The write an opcode makes, on the memory left by the two resolutions.
opcode_effect(m, inst, a_addr, b_addr, a_val) ==
    LET old == Cell(m, b_addr).b_value
    IN  CASE inst.opcode = "MOV" ->
                IF inst.a_mode = IMMEDIATE
                THEN SetB(m, b_addr, inst.a_value)
                ELSE SetRef(m, b_addr, a_addr)
          [] inst.opcode = "ADD" -> SetB(m, b_addr, old + a_val)
          [] inst.opcode = "SUB" -> SetB(m, b_addr, old - a_val)
          [] inst.opcode = "MUL" -> SetB(m, b_addr, old * a_val)
          [] inst.opcode = "DIV" ->
                IF a_val # 0 THEN SetB(m, b_addr, FloorDiv(old, a_val)) ELSE m
          [] inst.opcode = "MOD" ->
                IF a_val # 0 THEN SetB(m, b_addr, PyMod(old, a_val)) ELSE m
          [] inst.opcode = "DJN" -> SetB(m, b_addr, old - 1)
          [] OTHER -> m

\* A DAT that keeps its process: the slip C9 rules out.
dat_successors_requeue(pc) == <<pc>>

\* Line 145: DAT returns no successor.
dat_successors(pc) == <<>>

\* The child put before the parent's continuation: the slip C33 rules out.
spl_successors_child_first(pc, a_addr, nprocs) ==
    IF nprocs < max_processes
    THEN <<a_addr, normalize(pc + 1)>>
    ELSE <<normalize(pc + 1)>>

\* Lines 212-215: nprocs is len(warrior.processes) as execute_instruction
\* sees it, that is after run_cycle popped the executing process.
spl_successors(pc, a_addr, nprocs) ==
    IF nprocs < max_processes
    THEN <<normalize(pc + 1), a_addr>>
    ELSE <<normalize(pc + 1)>>

\* A NOP that ends its process as a DAT does: the slip C34 rules out.
successors_nop_dies(m, inst, pc, a_addr, b_addr, a_val, b_val, nprocs) ==
    LET next == <<normalize(pc + 1)>>
        skip == <<normalize(pc + 2)>>
        jump == <<a_addr>>
    IN  CASE inst.opcode = "DAT" -> dat_successors(pc)
          [] inst.opcode \in {"MOV", "ADD", "SUB", "MUL", "DIV", "MOD"} -> next
          [] inst.opcode = "JMP" -> jump
          [] inst.opcode = "JMZ" -> IF b_val = 0 THEN jump ELSE next
          [] inst.opcode = "JMN" -> IF b_val # 0 THEN jump ELSE next
          [] inst.opcode = "DJN" ->
                IF Cell(m, b_addr).b_value # 0 THEN jump ELSE next
          [] inst.opcode \in {"CMP", "SEQ"} -> IF a_val = b_val THEN skip ELSE next
          [] inst.opcode = "SNE" -> IF a_val # b_val THEN skip ELSE next
          [] inst.opcode = "SLT" -> IF a_val < b_val THEN skip ELSE next
          [] inst.opcode = "SPL" -> spl_successors(pc, a_addr, nprocs)
          [] inst.opcode = "NOP" -> <<>>
          [] OTHER -> next

\* DJN testing the value it read before the decrement: the slip C32 rules
\* out.
successors_stale_djn(m, inst, pc, a_addr, b_addr, a_val, b_val, nprocs) ==
    LET next == <<normalize(pc + 1)>>
        skip == <<normalize(pc + 2)>>
        jump == <<a_addr>>
    IN  CASE inst.opcode = "DAT" -> dat_successors(pc)
          [] inst.opcode \in {"MOV", "ADD", "SUB", "MUL", "DIV", "MOD"} -> next
          [] inst.opcode = "JMP" -> jump
          [] inst.opcode = "JMZ" -> IF b_val = 0 THEN jump ELSE next
          [] inst.opcode = "JMN" -> IF b_val # 0 THEN jump ELSE next
          [] inst.opcode = "DJN" -> IF b_val # 0 THEN jump ELSE next
          [] inst.opcode \in {"CMP", "SEQ"} -> IF a_val = b_val THEN skip ELSE next
          [] inst.opcode = "SNE" -> IF a_val # b_val THEN skip ELSE next
          [] inst.opcode = "SLT" -> IF a_val < b_val THEN skip ELSE next
          [] inst.opcode = "SPL" -> spl_successors(pc, a_addr, nprocs)
          [] inst.opcode = "NOP" -> next
          [] OTHER -> next

\* The list execute_instruction returns; m is the memory after the opcode's
\* write (DJN tests the decremented cell).
successors(m, inst, pc, a_addr, b_addr, a_val, b_val, nprocs) ==
    LET next == <<normalize(pc + 1)>>
        skip == <<normalize(pc + 2)>>
        jump == <<a_addr>>
    IN  CASE inst.opcode = "DAT" -> dat_successors(pc)
          [] inst.opcode \in {"MOV", "ADD", "SUB", "MUL", "DIV", "MOD"} -> next
          [] inst.opcode = "JMP" -> jump
          [] inst.opcode = "JMZ" -> IF b_val = 0 THEN jump ELSE next
          [] inst.opcode = "JMN" -> IF b_val # 0 THEN jump ELSE next
          [] inst.opcode = "DJN" ->
                IF Cell(m, b_addr).b_value # 0 THEN jump ELSE next
          [] inst.opcode \in {"CMP", "SEQ"} -> IF a_val = b_val THEN skip ELSE next
          [] inst.opcode = "SNE" -> IF a_val # b_val THEN skip ELSE next
          [] inst.opcode = "SLT" -> IF a_val < b_val THEN skip ELSE next
          [] inst.opcode = "SPL" -> spl_successors(pc, a_addr, nprocs)
          [] inst.opcode = "NOP" -> next
          [] OTHER -> next

\* The B operand resolved before the A operand, and the operand values read
\* from the cells as they stood before the resolutions: the slip C29 rules
\* out.
execute_instruction_b_first(m, nprocs, pc) ==
    LET obj == m.core[PyIdx(pc)]
        rb == resolve_address(m, pc, m.heap[obj].b_mode, m.heap[obj].b_value)
        ra == resolve_address(rb.m, pc, rb.m.heap[obj].a_mode, rb.m.heap[obj].a_value)
        inst == ra.m.heap[obj]
        a_val == operand_value(m, inst.a_mode, inst.a_value, ra.addr)
        b_val == operand_value(m, inst.b_mode, inst.b_value, rb.addr)
        done == opcode_effect(ra.m, inst, ra.addr, rb.addr, a_val)
    IN  [m |-> done,
         new_pcs |-> successors(done, inst, pc, ra.addr, rb.addr, a_val, b_val, nprocs),
         inst |-> inst, a_addr |-> ra.addr, b_addr |-> rb.addr,
         a_val |-> a_val, b_val |-> b_val,
         resolved_a |-> rb.m, resolved |-> ra.m]

\* execute_instruction(warrior, pc) for a pc Python can index.  inst is a
\* reference: its b_value is read when each argument is evaluated, so a
\* resolution that changes the executing object is seen by what follows.
execute_instruction(m, nprocs, pc) ==
    LET obj == m.core[PyIdx(pc)]
        ra == resolve_address(m, pc, m.heap[obj].a_mode, m.heap[obj].a_value)
        rb == resolve_address(ra.m, pc, ra.m.heap[obj].b_mode, ra.m.heap[obj].b_value)
        inst == rb.m.heap[obj]
        a_val == operand_value(rb.m, inst.a_mode, inst.a_value, ra.addr)
        b_val == operand_value(rb.m, inst.b_mode, inst.b_value, rb.addr)
        done == opcode_effect(rb.m, inst, ra.addr, rb.addr, a_val)
    IN  [m |-> done,
         new_pcs |-> successors(done, inst, pc, ra.addr, rb.addr, a_val, b_val, nprocs),
         inst |-> inst, a_addr |-> ra.addr, b_addr |-> rb.addr,
         a_val |-> a_val, b_val |-> b_val,
         resolved_a |-> ra.m, resolved |-> rb.m]

-----------------------------------------------------------------------------
(* run_cycle *)

\* Every loaded warrior counted as alive: the slip C14 rules out.
Alive_loaded(ws) == 1..Len(ws)

Alive(ws) == {k \in 1..Len(ws) : ws[k].processes # <<>>}

\* What one pass of the loop of lines 236-247 records for a warrior.
Step(k, pc, before, after, raised, r, pre) ==
    [warrior |-> k, pc |-> pc, before |-> before, after |-> after,
     raised |-> raised, opcode |-> r.inst.opcode, new_pcs |-> r.new_pcs,
     a_addr |-> r.a_addr, b_addr |-> r.b_addr, a_val |-> r.a_val,
     b_val |-> r.b_val, pre |-> pre, resolved_a |-> r.resolved_a,
     resolved |-> r.resolved, post |-> r.m]

\* The step that raised IndexError at line 126, after the pop of line 241.
NoResult(m) ==
    [m |-> m, new_pcs |-> <<>>, inst |-> Sentinel, a_addr |-> 0, b_addr |-> 0,
     a_val |-> 0, b_val |-> 0, resolved_a |-> m, resolved |-> m]

\* A dead warrior started again at its start address: the slip C20 rules
\* out.
dead_warrior_restarted(st, k) ==
    [st EXCEPT !.ws[k].processes = <<st.ws[k].start_address>>]

\* Lines 237-238: a warrior with an empty queue is passed over and nothing
\* changes.
dead_warrior_skipped(st, k) == st

\* Lines 236-247 from warrior k on; st = [m, ws, steps, raised].
RECURSIVE for_each_warrior(_, _)
for_each_warrior(k, st) ==
    IF k > Len(st.ws) \/ st.raised THEN st
    ELSE IF st.ws[k].processes = <<>>
         THEN for_each_warrior(k + 1, dead_warrior_skipped(st, k))
    ELSE
        LET before == st.ws[k].processes
            pc == Head(before)
            rest == Tail(before)
        IN  IF ~IndexOK(pc)
            THEN [st EXCEPT !.ws[k].processes = rest,
                            !.raised = TRUE,
                            !.steps = Append(@, Step(k, pc, before, rest, TRUE,
                                                     NoResult(st.m), st.m))]
            ELSE
                LET r == execute_instruction(st.m, Len(rest), pc)
                    after == rest \o r.new_pcs
                IN  for_each_warrior(k + 1,
                        [m |-> r.m,
                         ws |-> [st.ws EXCEPT ![k].processes = after],
                         steps |-> Append(st.steps,
                                      Step(k, pc, before, after, FALSE, r, st.m)),
                         raised |-> FALSE])

\* A cycle budget tested one round late: the slip C10 rules out.
budget_exhausted_late == cycle > max_cycles

\* Line 224.
budget_exhausted == cycle >= max_cycles

Snapshot == [heap |-> heap, core |-> core, warriors |-> warriors,
             cycle |-> cycle, winner |-> winner]

NoFrame == [active |-> FALSE, program |-> <<>>, min_separation |-> 0,
            address |-> 0, k |-> 0]

Raised == call.ret \in {"IndexError", "ValueError"}

\* No call is running and no exception ended the program.
Idle == ~frame.active /\ ~Raised

NoArg == [program |-> <<>>, address |-> 0, explicit |-> FALSE]

Called(op, ret, steps, value) ==
    [op |-> op, ret |-> ret, pre |-> Snapshot, steps |-> steps, value |-> value,
     arg |-> NoArg]

\* The first warrior of the list declared winner, alive or not: the slip C13
\* rules out.
declared_winner_first == IF Alive(warriors) # {} THEN 1 ELSE winner

\* Lines 231-232: with at most one warrior alive, alive_warriors[0] if there
\* is one, else winner stays as it is.
declared_winner ==
    IF Alive(warriors) # {} THEN CHOOSE k \in Alive(warriors) : TRUE ELSE winner

\* Calls counted instead of rounds: the slip C38 rules out.
RunCycle_counts_calls ==
    /\ Idle
    /\ UNCHANGED <<core_size, max_cycles, max_processes, max_length, frame, other>>
    /\ IF budget_exhausted
       THEN /\ call' = Called("run_cycle", "False", <<>>, <<>>)
            /\ UNCHANGED <<heap, core, warriors, cycle, winner>>
       ELSE IF Cardinality(Alive(warriors)) <= 1
       THEN /\ winner' = declared_winner
            /\ cycle' = cycle + 1
            /\ call' = Called("run_cycle", "False", <<>>, <<>>)
            /\ UNCHANGED <<heap, core, warriors>>
       ELSE LET st == for_each_warrior(1, [m |-> Mem(heap, core), ws |-> warriors,
                                           steps |-> <<>>, raised |-> FALSE])
            IN  /\ heap' = st.m.heap
                /\ core' = st.m.core
                /\ warriors' = st.ws
                /\ cycle' = IF st.raised THEN cycle ELSE cycle + 1
                /\ call' = Called("run_cycle",
                                  IF st.raised THEN "IndexError" ELSE "True",
                                  st.steps, <<>>)
                /\ UNCHANGED winner

\* A round run for a lone warrior: the slip C37 rules out.
RunCycle_lone_runs ==
    /\ Idle
    /\ UNCHANGED <<core_size, max_cycles, max_processes, max_length, frame, other>>
    /\ IF budget_exhausted
       THEN /\ call' = Called("run_cycle", "False", <<>>, <<>>)
            /\ UNCHANGED <<heap, core, warriors, cycle, winner>>
       ELSE IF Cardinality(Alive(warriors)) < 1
       THEN /\ winner' = declared_winner
            /\ call' = Called("run_cycle", "False", <<>>, <<>>)
            /\ UNCHANGED <<heap, core, warriors, cycle>>
       ELSE LET st == for_each_warrior(1, [m |-> Mem(heap, core), ws |-> warriors,
                                           steps |-> <<>>, raised |-> FALSE])
            IN  /\ heap' = st.m.heap
                /\ core' = st.m.core
                /\ warriors' = st.ws
                /\ cycle' = IF st.raised THEN cycle ELSE cycle + 1
                /\ call' = Called("run_cycle",
                                  IF st.raised THEN "IndexError" ELSE "True",
                                  st.steps, <<>>)
                /\ UNCHANGED winner

RunCycle ==
    /\ Idle
    /\ UNCHANGED <<core_size, max_cycles, max_processes, max_length, frame, other>>
    /\ IF budget_exhausted
       THEN /\ call' = Called("run_cycle", "False", <<>>, <<>>)
            /\ UNCHANGED <<heap, core, warriors, cycle, winner>>
       ELSE IF Cardinality(Alive(warriors)) <= 1
       THEN /\ winner' = declared_winner
            /\ call' = Called("run_cycle", "False", <<>>, <<>>)
            /\ UNCHANGED <<heap, core, warriors, cycle>>
       ELSE LET st == for_each_warrior(1, [m |-> Mem(heap, core), ws |-> warriors,
                                           steps |-> <<>>, raised |-> FALSE])
            IN  /\ heap' = st.m.heap
                /\ core' = st.m.core
                /\ warriors' = st.ws
                /\ cycle' = IF st.raised THEN cycle ELSE cycle + 1
                /\ call' = Called("run_cycle",
                                  IF st.raised THEN "IndexError" ELSE "True",
                                  st.steps, <<>>)
                /\ UNCHANGED winner

-----------------------------------------------------------------------------
(* load_warrior *)

Abs(x) == IF x < 0 THEN 0 - x ELSE x

Max(S) == CHOOSE x \in S : \A y \in S : y <= x

\* Lines 94-95: the cells are written in program order, so when two program
\* positions fall on one cell the later one stays.
copy_program(c0, ids, address) ==
    [c \in 0..(core_size - 1) |->
        LET W == {i \in 1..Len(ids) : (address + (i - 1)) % core_size = c}
        IN  IF W = {} THEN c0[c] ELSE ids[Max(W)]]

\* A load that puts the warrior at the head of the list: the slip C36 rules
\* out.
place_first(prog, address, explicit) ==
    LET ids == [i \in 1..Len(prog) |-> Len(heap) + i]
    IN  /\ heap' = heap \o prog
        /\ core' = copy_program(core, ids, address)
        /\ warriors' = <<[program |-> ids,
                          processes |-> <<address>>,
                          start_address |-> address]>> \o warriors
        /\ call' = [Called("load_warrior", "None", <<>>, <<>>) EXCEPT
                        !.arg = [program |-> prog, address |-> address,
                                 explicit |-> explicit]]

\* A load that leaves the process queue empty: the slip C23 rules out.
place_unstarted(prog, address, explicit) ==
    LET ids == [i \in 1..Len(prog) |-> Len(heap) + i]
    IN  /\ heap' = heap \o prog
        /\ core' = copy_program(core, ids, address)
        /\ warriors' = Append(warriors, [program |-> ids,
                                         processes |-> <<>>,
                                         start_address |-> address])
        /\ call' = [Called("load_warrior", "None", <<>>, <<>>) EXCEPT
                        !.arg = [program |-> prog, address |-> address,
                                 explicit |-> explicit]]

\* Lines 90-97, for a Warrior built from fresh Instruction objects.
place(prog, address, explicit) ==
    LET ids == [i \in 1..Len(prog) |-> Len(heap) + i]
    IN  /\ heap' = heap \o prog
        /\ core' = copy_program(core, ids, address)
        /\ warriors' = Append(warriors, [program |-> ids,
                                         processes |-> <<address>>,
                                         start_address |-> address])
        /\ call' = [Called("load_warrior", "None", <<>>, <<>>) EXCEPT
                        !.arg = [program |-> prog, address |-> address,
                                 explicit |-> explicit]]

\* Line 82.
min_separation == core_size \div (Len(warriors) + 1)

\* Lines 83 and 88: random.randint(0, core_size - len(program) - 1), both
\* ends included; an empty range raises ValueError.
sample_range(prog) == 0..(core_size - Len(prog) - 1)

\* Line 87.
too_close(address, k, sep) == Abs(address - warriors[k].start_address) < sep

\* Lines 86-87: the first warrior from k on whose while loop is entered with
\* this address, Len(warriors) + 1 when the for loop ends.
RECURSIVE next_too_close(_, _, _)
next_too_close(k, address, sep) ==
    IF k > Len(warriors) THEN k
    ELSE IF too_close(address, k, sep) THEN k
    ELSE next_too_close(k + 1, address, sep)

\* After a sample: either the for loop ends and lines 90-97 run, or the call
\* stays in the while loop of warrior j.
sampled(prog, address, k, sep) ==
    LET j == next_too_close(k, address, sep)
    IN  IF j > Len(warriors)
        THEN /\ place(prog, address, FALSE)
             /\ frame' = NoFrame
        ELSE /\ frame' = [active |-> TRUE, program |-> prog,
                          min_separation |-> sep, address |-> address, k |-> j]
             /\ UNCHANGED <<heap, core, warriors, call>>

LoadExplicit(prog, address) ==
    /\ Idle
    /\ place(prog, address, TRUE)
    /\ UNCHANGED <<core_size, max_cycles, max_processes, max_length, cycle,
                   winner, frame, other>>

LoadRandom(prog) ==
    /\ Idle
    /\ UNCHANGED <<core_size, max_cycles, max_processes, max_length, cycle, winner,
                   other>>
    /\ IF sample_range(prog) = {}
       THEN /\ call' = [Called("load_warrior", "ValueError", <<>>, <<>>) EXCEPT
                            !.arg = [program |-> prog, address |-> 0,
                                     explicit |-> FALSE]]
            /\ UNCHANGED <<heap, core, warriors, frame>>
       ELSE \E address \in sample_range(prog) :
                sampled(prog, address, 1, min_separation)

\* Line 88: one more turn of the while loop.
Resample ==
    /\ frame.active
    /\ UNCHANGED <<core_size, max_cycles, max_processes, max_length, cycle, winner,
                   other>>
    /\ \E address \in sample_range(frame.program) :
           sampled(frame.program, address, frame.k, frame.min_separation)

-----------------------------------------------------------------------------
(* get_memory_state *)

NonEmptyCell(m, addr) ==
    \/ Cell(m, addr).opcode # "DAT"
    \/ Cell(m, addr).a_value # 0
    \/ Cell(m, addr).b_value # 0

\* Lines 264-268 for warrior i from program position j on.
RECURSIVE mark_program(_, _, _)
mark_program(state, i, j) ==
    IF j > Len(warriors[i].program) THEN state
    ELSE LET addr == normalize(warriors[i].start_address + (j - 1))
         IN  mark_program(IF NonEmptyCell(Mem(heap, core), addr)
                          THEN [state EXCEPT ![addr] = i] ELSE state,
                          i, j + 1)

\* Lines 271-272 from queue position j on; st = [state, raised].
RECURSIVE mark_processes(_, _, _)
mark_processes(st, i, j) ==
    IF j > Len(warriors[i].processes) \/ st.raised THEN st
    ELSE LET pc == warriors[i].processes[j]
         IN  IF ~IndexOK(pc) THEN [st EXCEPT !.raised = TRUE]
             ELSE mark_processes([st EXCEPT !.state[PyIdx(pc)] = i + 10], i, j + 1)

\* A warrior's program area marked after its processes: the slip C27 rules
\* out.
RECURSIVE mark_warriors_program_last(_, _)
mark_warriors_program_last(st, i) ==
    IF i > Len(warriors) \/ st.raised THEN st
    ELSE LET p == mark_processes(st, i, 1)
         IN  mark_warriors_program_last(
                 [p EXCEPT !.state = mark_program(p.state, i, 1)], i + 1)

RECURSIVE mark_warriors(_, _)
mark_warriors(st, i) ==
    IF i > Len(warriors) \/ st.raised THEN st
    ELSE mark_warriors(
            mark_processes([st EXCEPT !.state = mark_program(st.state, i, 1)], i, 1),
            i + 1)

get_memory_state ==
    mark_warriors([state |-> [c \in 0..(core_size - 1) |-> 0], raised |-> FALSE], 1)

\* A snapshot that takes the program counters out of the queues as it marks
\* them: the slip C26 rules out.
GetMemoryState_draining ==
    /\ Idle
    /\ call' = IF get_memory_state.raised
               THEN Called("get_memory_state", "IndexError", <<>>, <<>>)
               ELSE Called("get_memory_state", "state", <<>>, get_memory_state.state)
    /\ warriors' = [k \in 1..Len(warriors) |->
                        [warriors[k] EXCEPT !.processes = <<>>]]
    /\ UNCHANGED <<core_size, max_cycles, max_processes, max_length, heap, core,
                   cycle, winner, frame, other>>

GetMemoryState ==
    /\ Idle
    /\ call' = IF get_memory_state.raised
               THEN Called("get_memory_state", "IndexError", <<>>, <<>>)
               ELSE Called("get_memory_state", "state", <<>>, get_memory_state.state)
    /\ UNCHANGED <<core_size, max_cycles, max_processes, max_length, heap, core,
                   warriors, cycle, winner, frame, other>>

-----------------------------------------------------------------------------
(* The battles of a tournament *)

\* A tournament makes one MARS object per battle.  The variables core,
\* warriors, cycle and winner are the fields of the object being called; other
\* holds the fields of the tournament's other object, and heap holds the
\* Instruction objects of both.
NoBattle == [live |-> FALSE, core |-> <<>>, warriors |-> <<>>, cycle |-> 0,
             winner |-> 0]

ThisBattle == [live |-> TRUE, core |-> core, warriors |-> warriors,
               cycle |-> cycle, winner |-> winner]

\* mars = MARS(...) for the next battle: a core of new DAT #0, #0 objects, no
\* warrior, cycle 0, no winner.  The battle made before stays as it is.
NewBattle ==
    /\ Idle
    /\ ~other.live
    /\ other' = ThisBattle
    /\ heap' = heap \o [c \in 1..core_size |-> Sentinel]
    /\ core' = [c \in 0..(core_size - 1) |-> Len(heap) + c + 1]
    /\ warriors' = <<>>
    /\ cycle' = 0
    /\ winner' = 0
    /\ call' = Called("init", "None", <<>>, <<>>)
    /\ UNCHANGED <<core_size, max_cycles, max_processes, max_length, frame>>

\* mars.load_warrior(Warrior(w.name, w.program[:], w.author), address) for
\* the warrior w at position k of the other battle: program[:] is a new list
\* of the same Instruction objects, and lines 94-95 store those objects.
LoadClone(k, address) ==
    LET ids == other.warriors[k].program
    IN  /\ Idle
        /\ other.live
        /\ core' = copy_program(core, ids, address)
        /\ warriors' = Append(warriors, [program |-> ids,
                                         processes |-> <<address>>,
                                         start_address |-> address])
        /\ call' = [Called("load_warrior", "None", <<>>, <<>>) EXCEPT
                        !.arg = [program |-> [i \in 1..Len(ids) |-> heap[ids[i]]],
                                 address |-> address, explicit |-> TRUE]]
        /\ UNCHANGED <<core_size, max_cycles, max_processes, max_length, heap,
                       cycle, winner, frame, other>>

\* The next call goes to the tournament's other MARS object: self is the
\* other battle from now on.
Swap ==
    /\ Idle
    /\ other.live
    /\ other' = ThisBattle
    /\ core' = other.core
    /\ warriors' = other.warriors
    /\ cycle' = other.cycle
    /\ winner' = other.winner
    /\ UNCHANGED <<core_size, max_cycles, max_processes, max_length, heap, frame,
                   call>>

-----------------------------------------------------------------------------
(* The programs and addresses the callers load *)

Imp == <<Instruction("MOV", DIRECT, 0, DIRECT, 1)>>

Idler == <<Instruction("NOP", PREDECREMENT, 1, IMMEDIATE, 0),
           Instruction("DAT", DIRECT, 0, DIRECT, 0)>>

Forker == <<Instruction("SPL", DIRECT, 0, IMMEDIATE, 0),
            Instruction("JMP", DIRECT, -1, IMMEDIATE, 0)>>

Splitter == <<Instruction("SPL", IMMEDIATE, 0, PREDECREMENT, 1)>>

Counter == <<Instruction("DJN", IMMEDIATE, 0, IMMEDIATE, 2)>>

Adder == <<Instruction("ADD", IMMEDIATE, 1, DIRECT, 1),
           Instruction("JMN", DIRECT, -1, DIRECT, 0)>>

Bomber == <<Instruction("SUB", IMMEDIATE, 1, POSTINCREMENT, 1),
            Instruction("JMZ", DIRECT, -1, INDIRECT, 0)>>

Scaler == <<Instruction("MUL", IMMEDIATE, -2, DIRECT, 2),
            Instruction("DIV", DIRECT, 1, INDIRECT, 1),
            Instruction("MOD", IMMEDIATE, -3, DIRECT, 0)>>

Tester == <<Instruction("SEQ", IMMEDIATE, 0, DIRECT, 1),
            Instruction("SNE", DIRECT, 0, IMMEDIATE, 1),
            Instruction("SLT", INDIRECT, 1, PREDECREMENT, 0)>>

Mover == <<Instruction("MOV", IMMEDIATE, 2, DIRECT, 1),
           Instruction("CMP", DIRECT, 0, POSTINCREMENT, 1),
           Instruction("MOV", INDIRECT, -1, PREDECREMENT, 1),
           Instruction("JMP", IMMEDIATE, 0, DIRECT, 0)>>

ProgramPool == {Imp, Idler, Forker, Splitter, Counter, Adder, Bomber, Scaler, Tester, Mover}

\* Programs loaded without an address: lengths 1, 2 and 4.
RandomPool == {Imp, Forker, Mover}

\* The two contestants come from the whole pool; a further warrior is an Imp
\* placed at random.
PoolFor(slot) == IF slot <= 2 THEN ProgramPool ELSE {}

RandomPoolFor(slot) == IF slot <= 2 THEN RandomPool ELSE {Imp}

\* Explicit addresses: every cell and, for the first warrior, one negative
\* index Python accepts and one address on each side that Python cannot index.
AddressesFor(slot) ==
    IF slot = 1
    THEN (0..(core_size - 1)) \cup {0 - (core_size + 1), -1, core_size}
    ELSE 0..(core_size - 1)

\* The callers load every warrior before they run the battle.
Loading(most) ==
    /\ Len(warriors) < most
    /\ cycle = 0 /\ winner = 0 /\ call.op # "run_cycle"

-----------------------------------------------------------------------------
(* The battle *)

\* MARS.__init__
Init ==
    /\ core_size = CoreSize
    /\ max_cycles = MaxCycles
    /\ max_processes \in 1..MaxProcs
    /\ max_length = MaxLength
    /\ heap = [i \in 1..CoreSize |-> Sentinel]
    /\ core = [c \in 0..(CoreSize - 1) |-> c + 1]
    /\ warriors = <<>>
    /\ cycle = 0
    /\ winner = 0
    /\ frame = NoFrame
    /\ call = [op |-> "init", ret |-> "None", pre |-> [heap |-> <<>>,
               core |-> <<>>, warriors |-> <<>>, cycle |-> 0, winner |-> 0],
               steps |-> <<>>, value |-> <<>>, arg |-> NoArg]
    /\ other = NoBattle

Next ==
    \/ /\ Loading(MaxWarriors)
       /\ \E prog \in PoolFor(Len(warriors) + 1) :
            \E address \in AddressesFor(Len(warriors) + 1) :
               LoadExplicit(prog, address)
    \/ /\ Loading(MaxWarriors)
       /\ \E prog \in RandomPoolFor(Len(warriors) + 1) : LoadRandom(prog)
    \/ Resample
    \/ RunCycle
    \/ GetMemoryState

Spec == Init /\ [][Next]_vars

\* The loader alone, with one warrior more than a battle has and programs of
\* every length the random placement tells apart.
LoaderNext ==
    \/ /\ Loading(MaxWarriors + 1)
       /\ \E prog \in RandomPool : \E address \in CellRange :
               LoadExplicit(prog, address)
    \/ /\ Loading(MaxWarriors + 1)
       /\ \E prog \in RandomPool : LoadRandom(prog)
    \/ Resample

LoaderSpec == Init /\ [][LoaderNext]_vars

\* Every warrior of the battle before is loaded again, in the same order.
LoadingClones ==
    /\ other.live
    /\ Len(warriors) < Len(other.warriors)
    /\ cycle = 0 /\ winner = 0 /\ call.op # "run_cycle"

Matched == other.live => Len(warriors) = Len(other.warriors)

\* Two battles of a tournament, one after the other: the second MARS object
\* is made when run_battle of the first has returned, and is loaded from the
\* same programs at the same addresses.
RematchNext ==
    \/ /\ ~other.live
       /\ Loading(MaxWarriors)
       /\ \E prog \in PoolFor(Len(warriors) + 1) :
            \E address \in AddressesFor(Len(warriors) + 1) :
               LoadExplicit(prog, address)
    \/ /\ call.op = "run_cycle" /\ call.ret = "False"
       /\ NewBattle
    \/ /\ LoadingClones
       /\ LoadClone(Len(warriors) + 1,
                    other.warriors[Len(warriors) + 1].start_address)
    \/ /\ Matched
       /\ RunCycle

RematchSpec == Init /\ [][RematchNext]_vars

\* Two battles of a tournament side by side: both MARS objects are loaded
\* from the same programs at the same addresses before either runs, and the
\* run_cycle calls of the two are made in any order.
TournamentNext ==
    \/ /\ ~other.live
       /\ Loading(MaxWarriors)
       /\ \E prog \in PoolFor(Len(warriors) + 1) :
            \E address \in AddressesFor(Len(warriors) + 1) :
               LoadExplicit(prog, address)
    \/ /\ call.op = "load_warrior"
       /\ NewBattle
    \/ /\ LoadingClones
       /\ LoadClone(Len(warriors) + 1,
                    other.warriors[Len(warriors) + 1].start_address)
    \/ /\ other.live /\ Matched
       /\ RunCycle
    \/ /\ Matched
       /\ Swap

TournamentSpec == Init /\ [][TournamentNext]_vars

\* Programs of a battle of more than two: one that keeps running, one that
\* runs into its DAT, one that counts down and leaves its cell.
MeleePool == {Imp, Idler, Counter}

\* A battle of one warrior more than a duel has, so that rounds still run
\* when a warrior has died.
MeleeNext ==
    \/ /\ Loading(MaxWarriors + 1)
       /\ \E prog \in MeleePool : \E address \in CellRange :
               LoadExplicit(prog, address)
    \/ RunCycle

MeleeSpec == Init /\ [][MeleeNext]_vars

\* Programs that divide: by a literal and by a cell's value, by zero and by
\* a divisor of either sign, with a dividend the divisor does not divide.
Halver == <<Instruction("DIV", IMMEDIATE, 2, DIRECT, 1),
            Instruction("MOD", IMMEDIATE, 2, DIRECT, -3)>>

Remainder == <<Instruction("MOD", IMMEDIATE, -2, DIRECT, 1),
               Instruction("DIV", IMMEDIATE, -2, DIRECT, 3)>>

Zeroer == <<Instruction("DIV", IMMEDIATE, 0, DIRECT, 1),
            Instruction("MOD", DIRECT, 1, DIRECT, 3)>>

ArithPool == {Halver, Remainder, Zeroer, Scaler}

\* A duel of two dividing programs.
ArithNext ==
    \/ /\ Loading(MaxWarriors)
       /\ \E prog \in ArithPool : \E address \in CellRange :
               LoadExplicit(prog, address)
    \/ RunCycle

ArithSpec == Init /\ [][ArithNext]_vars

-----------------------------------------------------------------------------
(* The scenario battles *)

\* A core with room for programs of four instructions apart from each other,
\* and a budget of several laps of the core.
ArenaSize == 2 * CoreSize + 2

ArenaCycles == 8 * MaxCycles

\* MARS(core_size, max_cycles) for a budget out of budgets.
ArenaInit(budgets) ==
    /\ core_size = ArenaSize
    /\ max_cycles \in budgets
    /\ max_processes \in 1..MaxProcs
    /\ max_length = ArenaSize
    /\ heap = [i \in 1..ArenaSize |-> Sentinel]
    /\ core = [c \in 0..(ArenaSize - 1) |-> c + 1]
    /\ warriors = <<>>
    /\ cycle = 0
    /\ winner = 0
    /\ frame = NoFrame
    /\ call = [op |-> "init", ret |-> "None", pre |-> [heap |-> <<>>,
               core |-> <<>>, warriors |-> <<>>, cycle |-> 0, winner |-> 0],
               steps |-> <<>>, value |-> <<>>, arg |-> NoArg]
    /\ other = NoBattle

\* Warriors of a single NOP, without and with operand side effects.
Nop == <<Instruction("NOP", IMMEDIATE, 0, IMMEDIATE, 0)>>

NopStepping == <<Instruction("NOP", PREDECREMENT, 1, POSTINCREMENT, 1)>>

NopPool == {Nop, NopStepping}

\* Two start addresses at least two cells apart round the core: neither
\* warrior's next cell is the other's cell.
FarApart(a1, a2) ==
    LET d == (a1 - a2) % core_size
    IN  2 <= d /\ d <= core_size - 2

\* Two warriors of one NOP each, loaded far apart, then run.
NopNext ==
    \/ /\ Loading(2)
       /\ \E prog \in NopPool : \E address \in CellRange :
             /\ Len(warriors) = 1 => FarApart(address, warriors[1].start_address)
             /\ LoadExplicit(prog, address)
    \/ /\ Len(warriors) = 2
       /\ RunCycle

NopSpec == ArenaInit(1..MaxCycles) /\ [][NopNext]_vars

Dwarf == <<Instruction("ADD", IMMEDIATE, 4, DIRECT, 3),
           Instruction("MOV", DIRECT, 2, INDIRECT, 2),
           Instruction("JMP", DIRECT, -2, DIRECT, 0),
           Instruction("DAT", IMMEDIATE, 0, IMMEDIATE, 0)>>

\* run_classic_battle: the Dwarf, then the Imp, each loaded without an
\* address, then run_battle.
ClassicNext ==
    \/ /\ Len(warriors) = 0
       /\ LoadRandom(Dwarf)
    \/ /\ Len(warriors) = 1
       /\ LoadRandom(Imp)
    \/ Resample
    \/ /\ Len(warriors) = 2
       /\ RunCycle

ClassicSpec == ArenaInit({ArenaCycles}) /\ [][ClassicNext]_vars

-----------------------------------------------------------------------------
(* Battles of programs whose two operands both have a side effect *)

DatStepping == <<Instruction("DAT", POSTINCREMENT, 0, PREDECREMENT, 0)>>

AddStepping == <<Instruction("ADD", PREDECREMENT, 1, PREDECREMENT, 1),
                 Instruction("JMP", DIRECT, -1, IMMEDIATE, 0)>>

SltStepping == <<Instruction("SLT", POSTINCREMENT, 1, POSTINCREMENT, 0)>>

OperandPool == {NopStepping, DatStepping, AddStepping, SltStepping, Imp}

OperandNext ==
    \/ /\ Loading(MaxWarriors)
       /\ \E prog \in OperandPool : \E address \in CellRange :
               LoadExplicit(prog, address)
    \/ RunCycle

OperandSpec == Init /\ [][OperandNext]_vars

-----------------------------------------------------------------------------
(* Battles of programs that move *)

\* MOV with a literal A operand onto the cell before it.
Setter == <<Instruction("MOV", IMMEDIATE, 2, DIRECT, -1)>>

MovePool == {Imp, Setter, Mover}

MoveNext ==
    \/ /\ Loading(MaxWarriors)
       /\ \E prog \in MovePool : \E address \in CellRange :
               LoadExplicit(prog, address)
    \/ RunCycle

MoveSpec == Init /\ [][MoveNext]_vars

-----------------------------------------------------------------------------
(* Battles of programs that add, subtract and multiply *)

\* ADD of a literal larger than the core onto the cell before it.
Raiser == <<Instruction("ADD", IMMEDIATE, 4, DIRECT, -1)>>

\* SUB with an IMMEDIATE B operand: the target is the executing cell.
Lowerer == <<Instruction("SUB", DIRECT, 0, IMMEDIATE, 3)>>

\* MUL through a pointer that steps on.
Doubler == <<Instruction("MUL", IMMEDIATE, -2, POSTINCREMENT, -1)>>

SumPool == {Imp, Raiser, Lowerer, Doubler, Adder, Bomber}

SumNext ==
    \/ /\ Loading(MaxWarriors)
       /\ \E prog \in SumPool : \E address \in CellRange :
               LoadExplicit(prog, address)
    \/ RunCycle

SumSpec == Init /\ [][SumNext]_vars

-----------------------------------------------------------------------------
(* Battles of programs that jump and skip *)

\* One test of the b_value of the next cell each: 0 in an empty cell, 1 in
\* another test, 2 in a Counter that has not run.
BranchZero == <<Instruction("JMZ", DIRECT, 2, DIRECT, 1)>>

BranchNonZero == <<Instruction("JMN", DIRECT, 2, DIRECT, 1)>>

SkipEqual == <<Instruction("SEQ", IMMEDIATE, 1, DIRECT, 1)>>

SkipSame == <<Instruction("CMP", DIRECT, 0, DIRECT, 1)>>

SkipUnequal == <<Instruction("SNE", IMMEDIATE, 1, DIRECT, 1)>>

SkipLess == <<Instruction("SLT", IMMEDIATE, 1, DIRECT, 1)>>

ControlPool == {Counter, Forker, BranchZero, BranchNonZero, SkipEqual,
                SkipSame, SkipUnequal, SkipLess}

ControlNext ==
    \/ /\ Loading(MaxWarriors)
       /\ \E prog \in ControlPool : \E address \in CellRange :
               LoadExplicit(prog, address)
    \/ RunCycle

ControlSpec == Init /\ [][ControlNext]_vars

-----------------------------------------------------------------------------
(* Claims *)

Values == (0 - MaxValue)..MaxValue

\* C1: no warrior's process queue ever holds more than max_processes entries.
C1_ProcessCap ==
    \A k \in 1..Len(warriors) : Len(warriors[k].processes) <= max_processes

\* The steps of the latest run_cycle that executed an instruction.
Executed == {i \in 1..Len(call.steps) : ~call.steps[i].raised}

\* C2: a step that executes SPL with the warrior's process count (the
\* executing process included) below max_processes leaves one process more;
\* with the count equal to max_processes it leaves the count unchanged.
C2_SplAtCap ==
    \A i \in Executed :
        LET s == call.steps[i]
        IN  s.opcode = "SPL" =>
              /\ Len(s.before) < max_processes => Len(s.after) = Len(s.before) + 1
              /\ Len(s.before) = max_processes => Len(s.after) = Len(s.before)

\* C3: every queued program counter lies in [0, core_size), and no core
\* access of run_cycle or get_memory_state raises IndexError.
C3_CountersInRange ==
    /\ \A k \in 1..Len(warriors) :
          \A j \in 1..Len(warriors[k].processes) :
              warriors[k].processes[j] \in CellRange
    /\ call.ret # "IndexError"

\* C4: for every addressing mode, every operand value, every base in
\* [0, core_size) and every core content a battle reaches, resolve_address
\* returns an index in [0, core_size).
C4_ResolveInRange ==
    \A base \in CellRange : \A mode \in AddressMode : \A value \in Values :
        resolve_address(Mem(heap, core), base, mode, value).addr \in CellRange

\* C4 is reached: a battle has changed a pointer cell, so that pointers with
\* a negative and with a positive offset are resolved.
C4_Witness ==
    /\ call.op = "run_cycle"
    /\ \E c \in CellRange : Cell(Mem(heap, core), c).b_value < 0
    /\ \E c \in CellRange : Cell(Mem(heap, core), c).b_value > 0

Loaded == call.op = "load_warrior" /\ call.ret = "None"

\* C5: load_warrior of a program of length L at address A writes exactly L
\* cells: cell (A+i) mod core_size equals program[i] for every i < L, and
\* every other cell is unchanged.
C5_LoadWritesProgram ==
    Loaded =>
        LET prog == call.arg.program
            A == call.arg.address
            footprint == {(A + i) % core_size : i \in 0..(Len(prog) - 1)}
        IN  /\ \A i \in 0..(Len(prog) - 1) :
                  Cell(Mem(heap, core), (A + i) % core_size) = prog[i + 1]
            /\ \A c \in CellRange \ footprint :
                  /\ core[c] = call.pre.core[c]
                  /\ heap[core[c]] = call.pre.heap[core[c]]
            /\ Cardinality({c \in CellRange : core[c] # call.pre.core[c]}) = Len(prog)

\* C6: load_warrior of a program longer than max_length or longer than
\* core_size fails, adds no warrior and writes no cell.
C6_LongProgramRejected ==
    (/\ call.op = "load_warrior"
     /\ \/ Len(call.arg.program) > max_length
        \/ Len(call.arg.program) > core_size)
    => /\ call.ret # "None"
       /\ warriors = call.pre.warriors
       /\ core = call.pre.core

\* C7: a load without an address that returns chose a start address a with
\* 0 <= a < core_size - L that is at least core_size // (n + 1) away from the
\* start address of every one of the n warriors loaded before.
C7_SeparatedFromAll ==
    (Loaded /\ ~call.arg.explicit) =>
        LET a == call.arg.address
            n == Len(call.pre.warriors)
        IN  /\ 0 <= a
            /\ a < core_size - Len(call.arg.program)
            /\ \A k \in 1..n :
                  Abs(a - call.pre.warriors[k].start_address)
                      >= core_size \div (n + 1)

\* C8: a load without an address always returns: when no address of the
\* sampling range is far enough from the warrior it is compared with, the
\* call has failed and is not resampling.
C8_UnsatisfiableLoadFails ==
    (\A a \in sample_range(frame.program) :
        frame.k \in 1..Len(warriors)
            /\ too_close(a, frame.k, frame.min_separation))
    => ~frame.active

\* C9: a step whose popped program counter addresses a DAT cell enqueues no
\* successor: the queue is the old queue without its head, one entry shorter.
C9_DatRemovesProcess ==
    \A i \in Executed :
        LET s == call.steps[i]
        IN  s.opcode = "DAT" =>
              /\ s.new_pcs = <<>>
              /\ s.after = Tail(s.before)
              /\ Len(s.after) = Len(s.before) - 1
              /\ warriors[s.warrior].processes = s.after

\* C9 is reached: a warrior with two processes ran one of them into a DAT.
C9_Witness ==
    \E i \in Executed :
        /\ call.steps[i].opcode = "DAT"
        /\ Len(call.steps[i].before) = 2
        /\ Len(warriors[call.steps[i].warrior].processes) = 1

\* C10: 0 <= cycle <= max_cycles in every state.
C10_CycleBudget == 0 <= cycle /\ cycle <= max_cycles

\* C10 is reached: the budget is used up with two warriors alive, and
\* run_cycle returned False without running a round.
C10_Witness ==
    /\ cycle = max_cycles
    /\ call.op = "run_cycle"
    /\ call.ret = "False"
    /\ Cardinality(Alive(warriors)) = 2

\* C11: run_battle terminates: every run_cycle call returns True or False, a
\* call that returns True has raised cycle by one within max_cycles, and a call
\* made with the budget used up returns False; so the loop of run_battle
\* reaches a call that returns False after at most max_cycles + 1 calls.
C11_BattleTerminates ==
    call.op = "run_cycle" =>
        /\ call.ret \in {"True", "False"}
        /\ call.ret = "True" =>
              (cycle = call.pre.cycle + 1 /\ cycle <= max_cycles)
        /\ call.pre.cycle >= max_cycles => call.ret = "False"

\* C12: a run_cycle call made with exactly one warrior alive returns False
\* with that warrior as winner, whatever the cycle counter is; a call made
\* with no warrior alive returns False with winner unset.
C12_SoleSurvivorWins ==
    call.op = "run_cycle" =>
        LET alive == Alive(call.pre.warriors)
        IN  /\ Cardinality(alive) = 1 => (call.ret = "False" /\ winner \in alive)
            /\ alive = {} => (call.ret = "False" /\ winner = 0)

\* C13: winner is set at most once: once it refers to a warrior it never
\* changes, and in every state where it is set that warrior is the only one
\* with a non-empty process queue.
C13_WinnerSetOnce ==
    /\ [](winner # 0 => Alive(warriors) = {winner})
    /\ [][winner # 0 => winner' = winner]_vars

\* C13 is reached: of two warriors one has died, the other was declared
\* winner, and run_cycle was called again after that.
C13_Witness ==
    /\ call.op = "run_cycle"
    /\ call.pre.winner # 0
    /\ winner = call.pre.winner
    /\ Len(warriors) = 2

\* The battle is at rest: the budget is used up or at most one process queue
\* is non-empty.
AtRest ==
    \/ cycle >= max_cycles
    \/ Cardinality({k \in 1..Len(warriors) : warriors[k].processes # <<>>}) <= 1

CoreValues == [c \in CellRange |-> heap[core[c]]]

Queues == [k \in 1..Len(warriors) |-> warriors[k].processes]

\* C14: once run_cycle has returned False the battle is at rest, and as long
\* as no warrior is loaded it stays at rest: every later run_cycle call
\* returns False, and cycle, every core cell and every process queue stay as
\* they are.
C14_FinishedIsAbsorbing ==
    /\ []((call.op = "run_cycle" /\ call.ret = "False") => AtRest)
    /\ [][(AtRest /\ Len(warriors') = Len(warriors)) =>
            /\ AtRest'
            /\ call'.op = "run_cycle" => call'.ret = "False"
            /\ cycle' = cycle
            /\ CoreValues' = CoreValues
            /\ Queues' = Queues]_vars

\* C14 is reached: after rounds that changed the core, run_cycle returned
\* False before the budget was used up and was then called once more.
C14_Witness ==
    /\ call.op = "run_cycle"
    /\ call.ret = "False"
    /\ call.pre.winner # 0
    /\ 0 < cycle /\ cycle < max_cycles
    /\ \E c \in CellRange : heap[core[c]].b_value # 0

\* C15: a battle loaded from the same programs at the same explicit addresses
\* in the same order as a battle that has run ends with the same winner (by
\* position in the warrior list) and the same cycle value.
C15_SameResult ==
    (/\ other.live
     /\ Len(warriors) = Len(other.warriors)
     /\ call.op = "run_cycle" /\ call.ret = "False")
    => (winner = other.winner /\ cycle = other.cycle)

\* A battle that no further run_cycle call changes.
Final(b) ==
    \/ b.cycle >= max_cycles
    \/ b.winner # 0
    \/ \A k \in 1..Len(b.warriors) : b.warriors[k].processes = <<>>

Contents(b) == [c \in CellRange |-> heap[b.core[c]]]

\* C16: two battles loaded from the same programs at the same addresses,
\* their run_cycle calls interleaved in any order, both end with the core
\* contents, winner and cycle of the battle run alone, hence with the same.
C16_BattlesIndependent ==
    (/\ other.live
     /\ Len(warriors) = Len(other.warriors)
     /\ Final(ThisBattle) /\ Final(other))
    => /\ Contents(ThisBattle) = Contents(other)
       /\ winner = other.winner
       /\ cycle = other.cycle

\* C17: no run_cycle call changes any field of any instruction of any
\* warrior's program.
C17_ProgramUnchanged ==
    call.op = "run_cycle" =>
        \A k \in 1..Len(warriors) :
            \A i \in 1..Len(warriors[k].program) :
                heap[warriors[k].program[i]] = call.pre.heap[warriors[k].program[i]]

\* The indices at which the cell contents of two memories differ.
Differs(m1, m2) == {c \in CellRange : Cell(m1, c) # Cell(m2, c)}

\* C18: core cells are independent values: in every executed step the
\* resolution of the A operand changes the cell at no more than one index,
\* so does the resolution of the B operand, and the opcode's write changes no
\* cell but the one the resolved B address indexes.
C18_CellsIndependent ==
    \A i \in Executed :
        LET s == call.steps[i]
        IN  /\ Cardinality(Differs(s.pre, s.resolved_a)) <= 1
            /\ Cardinality(Differs(s.resolved_a, s.resolved)) <= 1
            /\ Differs(s.resolved, s.post) \subseteq {PyIdx(s.b_addr)}

\* C19: a run_cycle call that runs a round makes one step for every warrior
\* alive at its start and no other, in load order; every step executes an
\* instruction, pops the head of that warrior's queue and appends the
\* successors to the tail of the same queue; and the steps follow one another
\* without overlap, each starting from the memory the one before left.
C19_OneStepEachInOrder ==
    (call.op = "run_cycle" /\ call.ret # "False") =>
        LET alive == Alive(call.pre.warriors)
            steps == call.steps
        IN  /\ {steps[i].warrior : i \in 1..Len(steps)} = alive
            /\ \A i, j \in 1..Len(steps) :
                  i < j => steps[i].warrior < steps[j].warrior
            /\ \A i \in 1..Len(steps) :
                  LET s == steps[i]
                      k == s.warrior
                  IN  /\ ~s.raised
                      /\ s.before = call.pre.warriors[k].processes
                      /\ s.pc = Head(s.before)
                      /\ s.after = Tail(s.before) \o s.new_pcs
                      /\ warriors[k].processes = s.after
                      /\ s.pre = IF i = 1
                                 THEN Mem(call.pre.heap, call.pre.core)
                                 ELSE steps[i - 1].post
            /\ \A k \in 1..Len(warriors) \ alive : warriors[k].processes = <<>>
            /\ Len(steps) > 0 => Mem(heap, core) = steps[Len(steps)].post

\* C20: a dead warrior is never resurrected: a process queue that is empty
\* is empty after every step, whatever the other warriors execute.
C20_NoResurrection ==
    [][\A k \in 1..Len(warriors) :
          warriors[k].processes = <<>> => warriors'[k].processes = <<>>]_vars

\* C20 is reached: a round ran for two warriors or more while another
\* warrior was dead.
C20_Witness ==
    /\ call.op = "run_cycle"
    /\ call.ret = "True"
    /\ Len(call.steps) >= 2
    /\ \E k \in 1..Len(warriors) :
          /\ call.pre.warriors[k].processes = <<>>
          /\ warriors[k].processes = <<>>

\* q is the floor of n / d.
IsFloorQuotient(q, n, d) ==
    IF d > 0 THEN q * d <= n /\ n < (q + 1) * d
    ELSE q * d >= n /\ n > (q + 1) * d

\* r is what the floor division of n by d leaves: n - r is a multiple of d and
\* r lies between 0 and d, d excluded.
IsRemainder(r, n, d) ==
    /\ (n - r) % Abs(d) = 0
    /\ IF d > 0 THEN 0 <= r /\ r < d ELSE d < r /\ r <= 0

\* C21: a step that executes DIV or MOD returns the single successor
\* normalize(pc + 1); with a_val = 0 it leaves the b_value of the cell at
\* b_addr as the operand resolutions left it, and with a_val # 0 that b_value
\* becomes the floor quotient (DIV) or the remainder of the floor division
\* (MOD) of the old b_value by a_val.
C21_DivModByZero ==
    \A i \in Executed :
        LET s == call.steps[i]
            old == Cell(s.resolved, s.b_addr).b_value
            new == Cell(s.post, s.b_addr).b_value
        IN  s.opcode \in {"DIV", "MOD"} =>
              /\ s.new_pcs = <<normalize(s.pc + 1)>>
              /\ s.a_val = 0 => new = old
              /\ (s.a_val # 0 /\ s.opcode = "DIV") => IsFloorQuotient(new, old, s.a_val)
              /\ (s.a_val # 0 /\ s.opcode = "MOD") => IsRemainder(new, old, s.a_val)

\* C21 is reached: in one round a warrior divided a non-zero b_value by zero
\* and the other divided a negative b_value by a divisor that does not divide
\* it.
C21_Witness ==
    /\ \E i \in Executed :
          /\ call.steps[i].opcode \in {"DIV", "MOD"}
          /\ call.steps[i].a_val = 0
          /\ Cell(call.steps[i].resolved, call.steps[i].b_addr).b_value # 0
    /\ \E i \in Executed :
          /\ call.steps[i].opcode \in {"DIV", "MOD"}
          /\ call.steps[i].a_val # 0
          /\ Cell(call.steps[i].resolved, call.steps[i].b_addr).b_value < 0
          /\ Cell(call.steps[i].resolved, call.steps[i].b_addr).b_value
                 % Abs(call.steps[i].a_val) # 0

\* Two warriors of a single NOP each are loaded.
TwoNops ==
    /\ Len(warriors) = 2
    /\ \A k \in 1..2 :
          /\ Len(warriors[k].program) = 1
          /\ heap[warriors[k].program[1]].opcode = "NOP"

\* C22 as stated: the battle of two single-NOP warriors loaded far apart
\* ends with no winner and with cycle = max_cycles.
C22_NopDrawAtBudget ==
    (TwoNops /\ call.op = "run_cycle" /\ call.ret = "False")
    => (winner = 0 /\ cycle = max_cycles)

\* C22 amended: the battle of two single-NOP warriors loaded far apart ends
\* with no winner and with cycle = min(2, max_cycles): both warriors execute
\* their NOP in the first round and the DAT behind it in the second.
C22_NopDrawAtTwo ==
    (TwoNops /\ call.op = "run_cycle" /\ call.ret = "False")
    => /\ winner = 0
       /\ cycle = IF max_cycles < 2 THEN max_cycles ELSE 2

\* C22 is reached: with a budget of more than two cycles both warriors have
\* died and run_cycle has returned False.
C22_Witness ==
    /\ TwoNops
    /\ call.op = "run_cycle" /\ call.ret = "False"
    /\ max_cycles > 2
    /\ Alive(warriors) = {}

\* The Imp is the only warrior loaded.
LoneImp ==
    /\ Len(warriors) = 1
    /\ Len(warriors[1].program) = 1
    /\ heap[warriors[1].program[1]] = Imp[1]

\* C23: an Imp loaded alone never dies: in every state, whatever calls were
\* made, its process queue has length exactly 1.
C23_LoneImpSurvives == LoneImp => Len(warriors[1].processes) = 1

\* C23 is reached: run_cycle declared the lone Imp winner and was called
\* again after that.
C23_Witness ==
    /\ LoneImp
    /\ call.op = "run_cycle"
    /\ call.pre.winner = 1
    /\ winner = 1

\* C24 as stated: the battle of the Dwarf and the Imp, placed by the loader,
\* ends before the budget is used up with one of the two as winner.
C24_ClassicHasWinner ==
    (Len(warriors) = 2 /\ call.op = "run_cycle" /\ call.ret # "True")
    => /\ call.ret = "False"
       /\ cycle < max_cycles
       /\ winner \in {1, 2}

\* C24 amended: the battle of the Dwarf and the Imp, placed by the loader,
\* terminates within the budget: every run_cycle call returns, a call that
\* returns True has counted one cycle within max_cycles, and when a call
\* returns False either one warrior is the winner, the other is dead and
\* cycle < max_cycles, or there is no winner: a draw, with the budget used up
\* or with both warriors dead.
C24_ClassicEnds ==
    (Len(warriors) = 2 /\ call.op = "run_cycle")
    => /\ call.ret \in {"True", "False"}
       /\ cycle <= max_cycles
       /\ call.ret = "True" => cycle = call.pre.cycle + 1
       /\ call.ret = "False" =>
             \/ /\ winner \in {1, 2}
                /\ Alive(warriors) = {winner}
                /\ cycle < max_cycles
             \/ /\ winner = 0
                /\ cycle = max_cycles \/ Alive(warriors) = {}

\* C24 is reached: the battle has ended as a draw, with the budget used up
\* and both warriors alive.
C24_Witness ==
    /\ Len(warriors) = 2
    /\ call.op = "run_cycle" /\ call.ret = "False"
    /\ winner = 0
    /\ cycle = max_cycles
    /\ Alive(warriors) = {1, 2}

\* C25: a snapshot taken right after one warrior was loaded, before any
\* cycle, is returned with one tag for every cell: 11 at the start address,
\* 1 at every other cell of the program's footprint whose instruction differs
\* from DAT #0, #0 in any field, and 0 everywhere else.
C25_SnapshotAfterLoad ==
    (call.op = "get_memory_state" /\ Len(warriors) = 1 /\ cycle = 0) =>
        LET w == warriors[1]
            footprint == {normalize(w.start_address + j) :
                              j \in 0..(Len(w.program) - 1)}
        IN  /\ call.ret = "state"
            /\ DOMAIN call.value = CellRange
            /\ \A c \in CellRange :
                  call.value[c] =
                      IF c = w.start_address THEN 11
                      ELSE IF c \in footprint /\ heap[core[c]] # Sentinel THEN 1
                      ELSE 0

\* C26: get_memory_state is read-only: the step of a get_memory_state call
\* changes no Instruction object, no core cell, no warrior (queue, start
\* address, program), neither cycle nor winner, so the battle goes on from
\* the state the call was made in.
C26_SnapshotReadOnly ==
    /\ [](call.op = "get_memory_state" => Snapshot = call.pre)
    /\ [][(call' # call /\ call'.op = "get_memory_state") =>
            /\ heap' = heap /\ core' = core
            /\ warriors' = warriors
            /\ cycle' = cycle /\ winner' = winner]_vars

\* C26 is reached: a snapshot was taken between two rounds of a battle with
\* both warriors alive.
C26_Witness ==
    /\ call.op = "get_memory_state" /\ call.ret = "state"
    /\ 0 < cycle /\ cycle < max_cycles
    /\ Cardinality(Alive(warriors)) = 2

\* C27 as stated: in every snapshot returned, every program counter in the
\* queue of warrior i has the tag i + 10, whatever else lies on its cell.
C27_ProcessTagShown ==
    (call.op = "get_memory_state" /\ call.ret = "state") =>
        \A i \in 1..Len(warriors) :
            \A q \in 1..Len(warriors[i].processes) :
                call.value[PyIdx(warriors[i].processes[q])] = i + 10

\* Warrior j has a program counter on cell c.
HasProcess(j, c) ==
    \E q \in 1..Len(warriors[j].processes) : PyIdx(warriors[j].processes[q]) = c

\* Cell c lies in the footprint of warrior j and is not a DAT with both
\* values 0.
HasProgramCell(j, c) ==
    /\ \E n \in 0..(Len(warriors[j].program) - 1) :
          normalize(warriors[j].start_address + n) = c
    /\ NonEmptyCell(Mem(heap, core), c)

\* C27 amended: get_memory_state raises IndexError exactly when a queued
\* program counter is outside [-core_size, core_size); otherwise, for every
\* program counter pc of warrior i, the tag at pc is that of the last warrior
\* j >= i that has a process or a non-empty footprint cell there: j + 10 when
\* j has a process at pc, else j.  So the tag is i + 10 unless a warrior
\* loaded later has a process or a non-empty footprint cell on the same cell.
C27_LastWarriorShown ==
    call.op = "get_memory_state" =>
        /\ call.ret = "IndexError" <=>
               \E i \in 1..Len(warriors) :
                   \E q \in 1..Len(warriors[i].processes) :
                       ~IndexOK(warriors[i].processes[q])
        /\ call.ret = "state" =>
               \A i \in 1..Len(warriors) :
                   \A q \in 1..Len(warriors[i].processes) :
                       LET c == PyIdx(warriors[i].processes[q])
                           j == Max({k \in i..Len(warriors) :
                                        HasProcess(k, c) \/ HasProgramCell(k, c)})
                       IN  call.value[c] = IF HasProcess(j, c) THEN j + 10 ELSE j

\* C27 is reached: in one snapshot a program counter of the first warrior
\* lies under a process of the second, and in the same battle a cell of the
\* first warrior's own has its tag.
C27_Witness ==
    /\ call.op = "get_memory_state" /\ call.ret = "state"
    /\ cycle > 0
    /\ Len(warriors) = 2
    /\ \E c \in CellRange :
          HasProcess(1, c) /\ HasProcess(2, c) /\ call.value[c] = 12
    /\ \E c \in CellRange : HasProcess(1, c) /\ call.value[c] = 11

\* The reference resolver: from memory m, resolving (base, mode, value) gives
\* address addr and memory m2, and m2 differs from m at most in the b_value
\* of cell p = (base + value) mod core_size.
ResolvedAsSpecified(m, base, mode, value, addr, m2) ==
    LET p == (base + value) % core_size
        b == Cell(m, p).b_value
        only_b_of_p(v) ==
            /\ Cell(m2, p) = [Cell(m, p) EXCEPT !.b_value = v]
            /\ \A c \in CellRange \ {p} : Cell(m2, c) = Cell(m, c)
        no_change == \A c \in CellRange : Cell(m2, c) = Cell(m, c)
    IN  CASE mode = IMMEDIATE -> addr = base /\ no_change
          [] mode = DIRECT -> addr = p /\ no_change
          [] mode = INDIRECT -> addr = (p + b) % core_size /\ no_change
          [] mode = PREDECREMENT ->
                addr = (p + b - 1) % core_size /\ only_b_of_p(b - 1)
          [] mode = POSTINCREMENT ->
                addr = (p + b) % core_size /\ only_b_of_p(b + 1)

\* C28: the two resolve_address calls of every executed step agree with the
\* reference for the mode of their operand: IMMEDIATE gives base, DIRECT gives
\* (base + value) mod core_size, INDIRECT follows the pointer cell p, these
\* three changing no cell; PREDECREMENT takes 1 from the b_value of p and
\* uses the new value, POSTINCREMENT uses the old value and adds 1, these two
\* changing the b_value of cell p and nothing else.
C28_ResolveAsSpecified ==
    \A i \in Executed :
        LET s == call.steps[i]
            inst == Cell(s.pre, s.pc)
            b_operand == Cell(s.resolved_a, s.pc)
        IN  /\ ResolvedAsSpecified(s.pre, s.pc, inst.a_mode, inst.a_value,
                                   s.a_addr, s.resolved_a)
            /\ ResolvedAsSpecified(s.resolved_a, s.pc, b_operand.b_mode,
                                   b_operand.b_value, s.b_addr, s.resolved)

\* C29: every executed step resolves the A operand on the memory it starts
\* from, then the B operand on the memory the A resolution left, whatever
\* the opcode; the operand values are read after both resolutions (the
\* literal from the executing instruction for an IMMEDIATE operand, else the
\* b_value of the resolved cell); and DAT and NOP change no cell beyond what
\* the two resolutions changed.
C29_ResolveThenRead ==
    \A i \in Executed :
        LET s == call.steps[i]
            inst == Cell(s.pre, s.pc)
            ra == resolve_address(s.pre, s.pc, inst.a_mode, inst.a_value)
            b_operand == Cell(s.resolved_a, s.pc)
            rb == resolve_address(s.resolved_a, s.pc, b_operand.b_mode,
                                  b_operand.b_value)
            read == Cell(s.resolved, s.pc)
        IN  /\ s.a_addr = ra.addr /\ s.resolved_a = ra.m
            /\ s.b_addr = rb.addr /\ s.resolved = rb.m
            /\ s.a_val = IF read.a_mode = IMMEDIATE THEN read.a_value
                         ELSE Cell(s.resolved, s.a_addr).b_value
            /\ s.b_val = IF read.b_mode = IMMEDIATE THEN read.b_value
                         ELSE Cell(s.resolved, s.b_addr).b_value
            /\ s.opcode \in {"DAT", "NOP"} => s.post = s.resolved

\* C29 is reached: in one round a NOP or DAT step changed a cell by resolving
\* its A operand and again by resolving its B operand, and a step read an
\* operand value that a resolution of the same step had changed.
C29_Witness ==
    /\ \E i \in Executed :
          /\ call.steps[i].opcode \in {"DAT", "NOP"}
          /\ call.steps[i].resolved_a # call.steps[i].pre
          /\ call.steps[i].resolved # call.steps[i].resolved_a
    /\ \E i \in Executed :
          LET s == call.steps[i]
          IN  \/ /\ Cell(s.pre, s.pc).a_mode # IMMEDIATE
                 /\ s.a_val # Cell(s.pre, s.a_addr).b_value
              \/ /\ Cell(s.pre, s.pc).b_mode # IMMEDIATE
                 /\ s.b_val # Cell(s.pre, s.b_addr).b_value

\* C30: a step that executes MOV returns the single successor
\* normalize(pc + 1) and changes no cell but the one at b_addr; with an
\* IMMEDIATE A operand that cell keeps its opcode, modes and a_value and gets
\* the literal a_value as b_value, with any other A mode all its five fields
\* become those of the cell at a_addr as the resolutions left it.
C30_MovWritesTarget ==
    \A i \in Executed :
        LET s == call.steps[i]
            inst == Cell(s.resolved, s.pc)
            target == PyIdx(s.b_addr)
        IN  s.opcode = "MOV" =>
              /\ s.new_pcs = <<normalize(s.pc + 1)>>
              /\ \A c \in CellRange \ {target} :
                    Cell(s.post, c) = Cell(s.resolved, c)
              /\ Cell(s.post, target) =
                    IF inst.a_mode = IMMEDIATE
                    THEN [Cell(s.resolved, target) EXCEPT !.b_value = inst.a_value]
                    ELSE Cell(s.resolved, s.a_addr)

\* C31: a step that executes ADD, SUB or MUL returns the single successor
\* normalize(pc + 1) and changes no cell but the one at b_addr; that cell
\* keeps its opcode, modes and a_value, and its b_value becomes the old value
\* plus, minus or times a_val, not reduced modulo core_size; with an IMMEDIATE
\* B mode that cell is the executing instruction's own.
C31_ArithmeticWritesTarget ==
    \A i \in Executed :
        LET s == call.steps[i]
            inst == Cell(s.resolved, s.pc)
            target == PyIdx(s.b_addr)
            old == Cell(s.resolved, target).b_value
        IN  s.opcode \in {"ADD", "SUB", "MUL"} =>
              /\ s.new_pcs = <<normalize(s.pc + 1)>>
              /\ \A c \in CellRange \ {target} :
                    Cell(s.post, c) = Cell(s.resolved, c)
              /\ Cell(s.post, target) =
                    [Cell(s.resolved, target) EXCEPT !.b_value =
                        CASE s.opcode = "ADD" -> old + s.a_val
                          [] s.opcode = "SUB" -> old - s.a_val
                          [] s.opcode = "MUL" -> old * s.a_val]
              /\ inst.b_mode = IMMEDIATE => target = PyIdx(s.pc)

\* C32: every step that executes a jump or a skip returns one successor:
\* JMP a_addr; JMZ a_addr if b_val = 0 and JMN a_addr if b_val # 0, else
\* normalize(pc + 1); DJN takes exactly 1 from the b_value of the cell at
\* b_addr and returns a_addr if the new value is not 0, else
\* normalize(pc + 1); CMP and SEQ return normalize(pc + 2) if a_val = b_val,
\* SNE if a_val # b_val, SLT if a_val < b_val, else normalize(pc + 1).
C32_ControlFlow ==
    \A i \in Executed :
        LET s == call.steps[i]
            next == <<normalize(s.pc + 1)>>
            skip == <<normalize(s.pc + 2)>>
            jump == <<s.a_addr>>
            old == Cell(s.resolved, s.b_addr).b_value
            new == Cell(s.post, s.b_addr).b_value
        IN  /\ s.opcode = "JMP" => s.new_pcs = jump
            /\ s.opcode = "JMZ" =>
                  s.new_pcs = IF s.b_val = 0 THEN jump ELSE next
            /\ s.opcode = "JMN" =>
                  s.new_pcs = IF s.b_val # 0 THEN jump ELSE next
            /\ s.opcode = "DJN" =>
                  /\ new = old - 1
                  /\ s.new_pcs = IF new # 0 THEN jump ELSE next
            /\ s.opcode \in {"CMP", "SEQ"} =>
                  s.new_pcs = IF s.a_val = s.b_val THEN skip ELSE next
            /\ s.opcode = "SNE" =>
                  s.new_pcs = IF s.a_val # s.b_val THEN skip ELSE next
            /\ s.opcode = "SLT" =>
                  s.new_pcs = IF s.a_val < s.b_val THEN skip ELSE next
            /\ s.opcode \in {"JMP", "JMZ", "JMN", "DJN", "CMP", "SEQ", "SNE", "SLT"}
                  => Len(s.new_pcs) = 1

\* C32 is reached: in one round a DJN decremented a cell to a value other
\* than 0 and jumped away from the next cell, and a comparison skipped the
\* next cell.
C32_Witness ==
    /\ \E i \in Executed :
          /\ call.steps[i].opcode = "DJN"
          /\ Cell(call.steps[i].post, call.steps[i].b_addr).b_value # 0
          /\ call.steps[i].new_pcs = <<call.steps[i].a_addr>>
          /\ call.steps[i].a_addr # normalize(call.steps[i].pc + 1)
    /\ \E i \in Executed :
          /\ call.steps[i].opcode \in {"CMP", "SEQ", "SNE", "SLT"}
          /\ call.steps[i].new_pcs = <<normalize(call.steps[i].pc + 2)>>

\* C33: a step that executes SPL puts normalize(pc + 1) on the tail of the
\* executing warrior's queue, with or without a child; a child comes at
\* a_addr right behind it and is the last entry; and a round takes entries
\* from the head of a queue only, so the parent's continuation is executed
\* before the child.
C33_ParentBeforeChild ==
    /\ [](\A i \in Executed :
            LET s == call.steps[i]
                rest == Tail(s.before)
            IN  s.opcode = "SPL" =>
                  /\ s.pc = Head(s.before)
                  /\ Len(s.new_pcs) \in {1, 2}
                  /\ s.after = rest \o s.new_pcs
                  /\ s.after[Len(rest) + 1] = normalize(s.pc + 1)
                  /\ Len(s.new_pcs) = 2 => s.after[Len(rest) + 2] = s.a_addr
                  /\ warriors[s.warrior].processes = s.after)
    /\ [][\A k \in 1..Len(warriors) :
            LET old == warriors[k].processes
                new == warriors'[k].processes
            IN  (Len(warriors') >= k /\ new # old) =>
                  /\ old # <<>>
                  /\ Len(new) >= Len(old) - 1
                  /\ SubSeq(new, 1, Len(old) - 1) = Tail(old)]_vars

\* C33 is reached: an SPL executed with other processes waiting spawned a
\* child at an address other than the parent's continuation.
C33_Witness ==
    \E i \in Executed :
        LET s == call.steps[i]
        IN  /\ s.opcode = "SPL"
            /\ Len(s.before) > 1
            /\ Len(s.new_pcs) = 2
            /\ s.new_pcs[1] # s.new_pcs[2]
            /\ warriors[s.warrior].processes = Tail(s.before) \o s.new_pcs

\* C34: every executed step gets 0, 1 or 2 successors, none only from a DAT
\* and two only from an SPL; the step leaves the executing warrior with as
\* many processes as before less the one taken plus the successors, that is
\* one fewer, as many or one more, and more only after an SPL; and a round
\* changes no warrior's process count by more than one.
C34_SuccessorCount ==
    /\ \A i \in Executed :
          LET s == call.steps[i]
              n == Len(s.new_pcs)
          IN  /\ n \in 0..2
              /\ n = 0 => s.opcode = "DAT"
              /\ n = 2 => s.opcode = "SPL"
              /\ Len(s.after) = Len(s.before) - 1 + n
              /\ Len(s.after) > Len(s.before) => s.opcode = "SPL"
    /\ call.op = "run_cycle" =>
          \A k \in 1..Len(warriors) :
              Len(warriors[k].processes) - Len(call.pre.warriors[k].processes)
                  \in {-1, 0, 1}

\* C34 is reached: in one round a warrior executed an SPL and has one
\* process more, and the other executed a DAT and has one fewer.
C34_Witness ==
    /\ \E i \in Executed :
          /\ call.steps[i].opcode = "SPL"
          /\ Len(call.steps[i].after) = Len(call.steps[i].before) + 1
    /\ \E i \in Executed :
          /\ call.steps[i].opcode = "DAT"
          /\ Len(call.steps[i].after) = Len(call.steps[i].before) - 1

\* C35: process queues are not shared: after a run_cycle call a warrior that
\* made no step has the queue it had, a warrior that made a step has the
\* queue that its own one step left, and a warrior with fewer processes than
\* before executed a DAT cell in its own step.
C35_QueuesNotShared ==
    call.op = "run_cycle" =>
        \A k \in 1..Len(warriors) :
            LET mine == {i \in 1..Len(call.steps) : call.steps[i].warrior = k}
                was == call.pre.warriors[k].processes
                now == warriors[k].processes
            IN  /\ mine = {} => now = was
                /\ \A i \in mine :
                      /\ mine = {i}
                      /\ call.steps[i].before = was
                      /\ call.steps[i].after = now
                /\ Len(now) < Len(was) =>
                      \E i \in mine \cap Executed :
                          /\ call.steps[i].opcode = "DAT"
                          /\ Cell(call.steps[i].pre, call.steps[i].pc).opcode = "DAT"

\* C36: after load_warrior with an explicit address the warrior list is the
\* list of before with the loaded warrior appended; that warrior has the
\* given address as start_address, the one-element queue of that address as
\* processes, so it is alive with one process, and the program it was given.
C36_LoadStartsOneProcess ==
    (call.op = "load_warrior" /\ call.arg.explicit) =>
        LET k == Len(warriors)
        IN  /\ call.ret = "None"
            /\ k = Len(call.pre.warriors) + 1
            /\ SubSeq(warriors, 1, k - 1) = call.pre.warriors
            /\ warriors[k].start_address = call.arg.address
            /\ warriors[k].processes = <<call.arg.address>>
            /\ k \in Alive(warriors)
            /\ [i \in 1..Len(warriors[k].program) |-> heap[warriors[k].program[i]]]
                   = call.arg.program

\* C36 is reached: a second warrior was loaded at an explicit address behind
\* a first one that starts elsewhere with another program.
C36_Witness ==
    /\ call.op = "load_warrior"
    /\ call.arg.explicit
    /\ Len(warriors) = 2
    /\ warriors[2].start_address # warriors[1].start_address
    /\ Len(warriors[2].program) # Len(warriors[1].program)
    /\ warriors[2].processes = <<warriors[2].start_address>>

\* C37: a run_cycle call on a battle of one loaded warrior or none, with
\* max_cycles > 0, returns False and executes no instruction: cycle stays 0,
\* the core and the process queues are as before, and the winner is the lone
\* warrior, or unset when no warrior is loaded.
C37_LoneWarriorRunsNothing ==
    (call.op = "run_cycle" /\ Len(call.pre.warriors) <= 1 /\ max_cycles > 0) =>
        /\ call.ret = "False"
        /\ call.steps = <<>>
        /\ call.pre.cycle = 0 /\ cycle = 0
        /\ heap = call.pre.heap /\ core = call.pre.core
        /\ warriors = call.pre.warriors
        /\ winner = Len(warriors)

\* C37 is reached: the first run_cycle of a battle of one warrior, whose
\* first instruction is not a DAT, has returned.
C37_Witness ==
    /\ call.op = "run_cycle"
    /\ Len(warriors) = 1
    /\ call.pre.winner = 0
    /\ winner = 1
    /\ IndexOK(warriors[1].start_address)
    /\ Cell(Mem(heap, core), warriors[1].start_address).opcode # "DAT"

\* C38: cycle counts completed rounds: a run_cycle call that returns True
\* has made one executed step for every warrior alive at its start and leaves
\* cycle one higher; a call that returns False has made no step and leaves
\* cycle as it was; and once a round has run and at most one warrior is
\* alive, no step changes the core, a process queue or cycle.
C38_CycleCountsRounds ==
    /\ [](call.op = "run_cycle" =>
            /\ call.ret = "True" =>
                  /\ cycle = call.pre.cycle + 1
                  /\ {call.steps[i].warrior : i \in Executed}
                         = Alive(call.pre.warriors)
                  /\ Len(call.steps) = Cardinality(Alive(call.pre.warriors))
            /\ call.ret = "False" =>
                  /\ cycle = call.pre.cycle
                  /\ call.steps = <<>>
                  /\ heap = call.pre.heap /\ core = call.pre.core
                  /\ warriors = call.pre.warriors)
    /\ [][(cycle > 0 /\ Cardinality(Alive(warriors)) <= 1) =>
             /\ heap' = heap /\ core' = core
             /\ warriors' = warriors
             /\ cycle' = cycle]_vars

\* C38 is reached: a round left one warrior alive before the budget was
\* used up, and the next run_cycle returned False without a step, with cycle
\* as the round left it.
C38_Witness ==
    /\ call.op = "run_cycle"
    /\ call.ret = "False"
    /\ 0 < cycle /\ cycle < max_cycles
    /\ cycle = call.pre.cycle
    /\ Len(warriors) = 2
    /\ Cardinality(Alive(warriors)) = 1
    /\ call.pre.winner = 0
    /\ winner \in Alive(warriors)

====
